---- MODULE Spec2Model ----
(***************************************************************************)
(* Model of is_EF11 (src/is_EF11.py): the EF[1,1] certifier for an         *)
(* allocation of indivisible items between two agents.                     *)
(*                                                                         *)
(* One call of is_EF11 is modelled as a state machine:                     *)
(*   "call"      -> UnpackAgents  (lines 25-26; IndexError below 2 agents) *)
(*   "aggregate" -> Aggregate     (lines 36-115: both perspectives and the *)
(*                                 result dictionary)                      *)
(*   "checkA"    -> CheckAEnviesB (lines 119-151)                          *)
(*   "checkB"    -> CheckBEnviesA (lines 153-187)                          *)
(*   "done" / "error" are terminal.                                        *)
(*                                                                         *)
(* Agents are the positions 1..k of the keys of `bundles` in dictionary    *)
(* order; items are the numbers 1..n.  Items are opaque to the code (it    *)
(* only tests membership and looks up values and categories), so they are  *)
(* numbered in the order the aggregation loops meet them; bundles are      *)
(* disjoint and hold no item twice.  Values are integers, for which        *)
(* Python's float sums are exact.  The oracle's answers are drawn when the *)
(* aggregation asks for them and kept in `val`.                            *)
(*                                                                         *)
(* Spec explores the calls on two-agent allocations, SpecAnyAgents the     *)
(* calls on allocations of zero to MaxAgents agents.                       *)
(***************************************************************************)
EXTENDS Integers, Sequences, FiniteSets

\* ---------------------------------------------------------------- bounds
\* allocations of up to NumItems items are explored with every pair of
\* valuations; larger ones, up to NumItemsSameValuation items, with the two
\* agents sharing one valuation
NumItems == 3
NumItemsSameValuation == 5
MaxVal == 2
NumCats == 2
\* the allocations of any number of agents are explored with fewer items
MaxAgents == 3
NumItemsAnyAgents == 2

Values == (0 - MaxVal)..MaxVal
Cats == 1..NumCats
\* cat_of(item) when the instance has no item_categories (line 30)
NoneCat == 0

VARIABLES
    bundles,          \* the allocation: bundles[a] is the item sequence of the a-th key
    val,              \* the oracle's answers: val[a][i] = instance.agent_item_value(a, i)
    item_categories,  \* [none |-> TRUE] or [none |-> FALSE, map |-> item -> category]
    pc,
    A, B,             \* agents[0], agents[1] (0 before line 26)
    wost_chore_in_cat_eyes_of_self,
    best_good_in_cat_eyes_of_other,
    wost_chore_item,
    best_good_item,
    total_value_eyes_of_A,
    total_value_eyes_of_B,
    result

vars == <<bundles, val, item_categories, pc, A, B,
          wost_chore_in_cat_eyes_of_self, best_good_in_cat_eyes_of_other,
          wost_chore_item, best_good_item,
          total_value_eyes_of_A, total_value_eyes_of_B, result>>

inputs == <<bundles, item_categories>>

aggregates == <<wost_chore_in_cat_eyes_of_self, best_good_in_cat_eyes_of_other,
                wost_chore_item, best_good_item,
                total_value_eyes_of_A, total_value_eyes_of_B>>

\* ---------------------------------------------------------------- helpers
\* Python's None / the empty dict
None == <<>>
EmptyDict == <<>>

\* d[c] = v on a dict modelled as a function
DictSet(d, c, v) == [x \in (DOMAIN d) \cup {c} |-> IF x = c THEN v ELSE d[x]]

RECURSIVE Concat(_)
Concat(ss) == IF ss = <<>> THEN <<>> ELSE Head(ss) \o Concat(Tail(ss))

Range(s) == {s[i] : i \in DOMAIN s}

\* the bundles of k agents that hold the items 1..n, in loop order
Splits(n, k) ==
    IF k = 0 THEN IF n = 0 THEN {<<>>} ELSE {}
    ELSE {[a \in 1..k |-> [j \in 1..(cut[a + 1] - cut[a]) |-> cut[a] + j]] :
            cut \in {c \in [1..(k + 1) -> 0..n] :
                        /\ c[1] = 0
                        /\ c[k + 1] = n
                        /\ \A a \in 1..k : c[a] <= c[a + 1]}}

\* lines 29-33
cat_of(item) == IF item_categories.none THEN NoneCat ELSE item_categories.map[item]

\* `item in bundles[X]`
InBundle(item, X) == item \in Range(bundles[X])

\* lines 49-50, 75-76: the order in which the nested loops visit the items
Traversal == Concat(bundles)

\* ------------------------------------------------- aggregation (lines 36-96)
\* line 58 / 84: `v < 0 and item in bundles[X]`
IsOwnChore(v, own) == v < 0 /\ own

\* line 63 / 89: `elif v > 0 and item not in bundles[X]`
IsOthersGood(v, own) == v > 0 /\ ~own

\* mutant: a later chore of equal value replaces the recorded one
ReplacesChore_OrEqual(v, d, c) == c \notin DOMAIN d \/ v <= d[c]

\* lines 59-60 / 85-86: d = dict.get(c, inf); if v < d
ReplacesChore(v, d, c) == c \notin DOMAIN d \/ v < d[c]

\* mutant: only the first good of a category is ever recorded
ReplacesGood_FirstOnly(v, d, c) == c \notin DOMAIN d

\* lines 64-65 / 90-91: d = dict.get(c, -inf); if v > d
ReplacesGood(v, d, c) == c \notin DOMAIN d \/ v > d[c]

\* mutant: every value is added to the own-bundle total
AddValue_AlwaysOwn(acc, v, own) == [acc EXCEPT !.itself = @ + v]

\* lines 53-56 / 79-82: the two running totals after one more item
AddValue(acc, v, own) ==
    IF own THEN [acc EXCEPT !.itself = @ + v] ELSE [acc EXCEPT !.other = @ + v]

\* lines 47-48 / 73-74 and the empty dicts of lines 36-41
PassStart ==
    [itself |-> 0, other |-> 0,
     chore_val |-> EmptyDict, chore_item |-> EmptyDict,
     good_val |-> EmptyDict, good_item |-> EmptyDict]

\* lines 51-67 / 77-93: the loop body for one item, in the eyes of agent X
PassItem(agent_item_value, X, item, acc) ==
    LET v == agent_item_value[X][item]
        c == cat_of(item)
        own == InBundle(item, X)
        summed == AddValue(acc, v, own)
    IN  IF IsOwnChore(v, own)
        THEN IF ReplacesChore(v, acc.chore_val, c)
             THEN [summed EXCEPT !.chore_val = DictSet(@, c, v),
                                 !.chore_item = DictSet(@, c, item)]
             ELSE summed
        ELSE IF IsOthersGood(v, own)
        THEN IF ReplacesGood(v, acc.good_val, c)
             THEN [summed EXCEPT !.good_val = DictSet(@, c, v),
                                 !.good_item = DictSet(@, c, item)]
             ELSE summed
        ELSE summed

\* lines 49-67 / 75-93: the nested loops over every bundle, in the eyes of X
RECURSIVE Pass(_, _, _, _)
Pass(agent_item_value, X, todo, acc) ==
    IF todo = <<>> THEN acc
    ELSE Pass(agent_item_value, X, Tail(todo),
              PassItem(agent_item_value, X, Head(todo), acc))

\* lines 99-115
InitialResult(tA, tB) ==
    [is_ef11 |-> TRUE,
     violating_pair |-> None,
     swap_pairs |-> [a \in {A, B} |-> <<>>],
     bundle_values |->
        [a \in {A, B} |->
            IF a = A
            THEN [own_bundle_value |-> tA[A], other_bundle_value |-> tA[B],
                  gap |-> tA[A] - tA[B]]
            ELSE [own_bundle_value |-> tB[B], other_bundle_value |-> tB[A],
                  gap |-> tB[B] - tB[A]]]]

\* ------------------------------------------------- envy check (lines 119-187)
\* mutant: a gap of exactly zero counts as envy
Envies_OrEqual(gap) == gap <= 0

\* line 121 / 155: `if gap < 0`
Envies(gap) == gap < 0

\* mutant: the chore's value is added instead of subtracted
Gain_Sum(chore_val, good_val) == chore_val + good_val

\* line 133 / 167: gain = -chore_val + good_val
Gain(chore_val, good_val) == (0 - chore_val) + good_val

\* line 142, 145 / 176, 179: gain >= needed
Eliminates(gain, needed) == gain >= needed

\* lines 123-125 / 157-159: the categories with a chore of X and a good of O
CandidateCategories(X, O) ==
    (DOMAIN wost_chore_in_cat_eyes_of_self[X])
        \cap (DOMAIN best_good_in_cat_eyes_of_other[O])

\* lines 129-143 / 163-177: the dictionary appended for category c
SwapCandidate(X, O, c, needed) ==
    LET chore_val == wost_chore_in_cat_eyes_of_self[X][c]
        good_val == best_good_in_cat_eyes_of_other[O][c]
        gain == Gain(chore_val, good_val)
    IN  [category |-> c,
         remove_from_own |-> wost_chore_item[X][c],
         remove_from_other |-> best_good_item[O][c],
         chore_value |-> chore_val,
         good_value |-> good_val,
         total_gain |-> gain,
         eliminates_envy |-> Eliminates(gain, needed)]

\* line 128 / 162: a Python set is iterated in an order the code does not fix
IterationOrders(S) ==
    {s \in [1..Cardinality(S) -> S] : Range(s) = S}

\* lines 127-146 / 161-180: the list of candidates built by the loop
SwapList(X, O, order, needed) ==
    [i \in DOMAIN order |-> SwapCandidate(X, O, order[i], needed)]

\* mutant: any recorded candidate counts as eliminating the envy
EnvyEliminated_AnyCandidate(swaps) == swaps # <<>>

\* lines 127, 145-146 / 161, 179-180
EnvyEliminated(swaps) == \E i \in DOMAIN swaps : swaps[i].eliminates_envy

\* mutant: the violating pair is reported in the reverse order
ViolatingPair_Reversed(X, O) == <<O, X>>

\* line 150 / 184: (envious agent, envied agent)
ViolatingPair(X, O) == <<X, O>>

\* ---------------------------------------------------------------- states
\* Categories are opaque dictionary keys, so the category maps are taken up
\* to renaming: item 1 is in category 1, and a later item is in a category
\* already used or in the next unused one.
CategoryMaps(n) ==
    {m \in [1..n -> Cats] :
        \A i \in 1..n : \/ m[i] = 1
                         \/ \E j \in 1..(i - 1) : m[j] \in {m[i], m[i] - 1}}

\* the arguments of a call: an allocation of the items 1..n to k agents and
\* an instance with either no item_categories or a category for every item
Inputs(n, k) ==
    /\ bundles \in Splits(n, k)
    /\ item_categories \in
          {[none |-> TRUE, map |-> <<>>]}
              \cup {[none |-> FALSE, map |-> m] : m \in CategoryMaps(n)}

NotCalled ==
    /\ pc = "call"
    /\ val = <<>>
    /\ A = 0
    /\ B = 0
    /\ wost_chore_in_cat_eyes_of_self = <<>>
    /\ best_good_in_cat_eyes_of_other = <<>>
    /\ wost_chore_item = <<>>
    /\ best_good_item = <<>>
    /\ total_value_eyes_of_A = <<>>
    /\ total_value_eyes_of_B = <<>>
    /\ result = <<>>

\* a call on an allocation between exactly two agents
Init ==
    /\ \E n \in 0..NumItemsSameValuation : Inputs(n, 2)
    /\ NotCalled

\* a call on an allocation between any number of agents
InitAnyAgents ==
    /\ \E n \in 0..NumItemsAnyAgents, k \in 0..MaxAgents : Inputs(n, k)
    /\ NotCalled

\* lines 25-26: agents = list(bundles.keys()); A, B = agents[0], agents[1]
UnpackAgents ==
    /\ pc = "call"
    /\ IF Len(bundles) >= 2
       THEN /\ A' = 1
            /\ B' = 2
            /\ pc' = "aggregate"
       ELSE /\ pc' = "error"      \* IndexError: list index out of range
            /\ UNCHANGED <<A, B>>
    /\ UNCHANGED <<inputs, val, aggregates, result>>

\* the valuations an instance can answer with for the items of the allocation
\* (lines 51, 77: asked of agents A and B only, once for every item)
Valuations ==
    IF Len(Traversal) <= NumItems
    THEN [{A, B} -> [Range(Traversal) -> Values]]
    ELSE {[a \in {A, B} |-> v] : v \in [Range(Traversal) -> Values]}

\* lines 36-115
Aggregate ==
    /\ pc = "aggregate"
    /\ \E agent_item_value \in Valuations :
       \E pa \in {Pass(agent_item_value, A, Traversal, PassStart)},
          pb \in {Pass(agent_item_value, B, Traversal, PassStart)} :
       LET agents == DOMAIN bundles
           tA == [a \in {A, B} |-> IF a = A THEN pa.itself ELSE pa.other]
           tB == [a \in {A, B} |-> IF a = B THEN pb.itself ELSE pb.other]
       IN  /\ wost_chore_in_cat_eyes_of_self' =
                [a \in agents |-> IF a = A THEN pa.chore_val
                                  ELSE IF a = B THEN pb.chore_val ELSE EmptyDict]
           /\ wost_chore_item' =
                [a \in agents |-> IF a = A THEN pa.chore_item
                                  ELSE IF a = B THEN pb.chore_item ELSE EmptyDict]
           /\ best_good_in_cat_eyes_of_other' =
                [a \in agents |-> IF a = B THEN pa.good_val
                                  ELSE IF a = A THEN pb.good_val ELSE EmptyDict]
           /\ best_good_item' =
                [a \in agents |-> IF a = B THEN pa.good_item
                                  ELSE IF a = A THEN pb.good_item ELSE EmptyDict]
           /\ total_value_eyes_of_A' = tA
           /\ total_value_eyes_of_B' = tB
           /\ result' = InitialResult(tA, tB)
           /\ val' = agent_item_value
    /\ pc' = "checkA"
    /\ UNCHANGED <<inputs, A, B>>

\* lines 119-151 (X = A, O = B) and 153-187 (X = B, O = A): one direction;
\* `passed` is where control goes on when the envy is absent or eliminated,
\* `failed` where it goes after lines 149-150 / 183-184 (`return result`)
CheckDirection(X, O, gap, passed, failed) ==
    IF Envies(gap)
    THEN \E order \in IterationOrders(CandidateCategories(X, O)) :
         \E swaps \in {SwapList(X, O, order, 0 - gap)} :
            LET listed == [result EXCEPT !.swap_pairs[X] = swaps]
            IN  IF ~EnvyEliminated(swaps)
                THEN /\ result' = [listed EXCEPT !.is_ef11 = FALSE,
                                                 !.violating_pair = ViolatingPair(X, O)]
                     /\ pc' = failed
                ELSE /\ result' = listed
                     /\ pc' = passed
    ELSE /\ result' = result
         /\ pc' = passed

\* mutant: line 151 (`return result`) is missing, the reverse direction is
\* evaluated although the first one failed
CheckAEnviesB_NoReturn ==
    /\ pc = "checkA"
    /\ CheckDirection(A, B, total_value_eyes_of_A[A] - total_value_eyes_of_A[B],
                      "checkB", "checkB")
    /\ UNCHANGED <<inputs, val, A, B, aggregates>>

\* lines 119-151
CheckAEnviesB ==
    /\ pc = "checkA"
    /\ CheckDirection(A, B, total_value_eyes_of_A[A] - total_value_eyes_of_A[B],
                      "checkB", "done")
    /\ UNCHANGED <<inputs, val, A, B, aggregates>>

\* lines 153-187
CheckBEnviesA ==
    /\ pc = "checkB"
    /\ CheckDirection(B, A, total_value_eyes_of_B[B] - total_value_eyes_of_B[A],
                      "done", "done")
    /\ UNCHANGED <<inputs, val, A, B, aggregates>>

Next ==
    \/ UnpackAgents
    \/ Aggregate
    \/ CheckAEnviesB
    \/ CheckBEnviesA

Spec == Init /\ [][Next]_vars

SpecAnyAgents == InitAnyAgents /\ [][Next]_vars

\* ======================================================== specification terms
\* The quantities of the natural-language specification, computed from the
\* inputs alone (bundles, val, item_categories), not from the code's aggregates.

Returned == pc = "done"
Aggregated == pc \in {"checkA", "checkB", "done"}

Held(X) == Range(bundles[X])
Other(X) == IF X = A THEN B ELSE A

RECURSIVE SumValues(_, _)
SumValues(X, S) ==
    IF S = {} THEN 0
    ELSE LET i == CHOOSE i \in S : TRUE
         IN  val[X][i] + SumValues(X, S \ {i})

OwnValue(X) == SumValues(X, Held(X))
OtherValue(X) == SumValues(X, Held(Other(X)))
SpecGap(X) == OwnValue(X) - OtherValue(X)

\* position of an item in the bundle of agent H; the aggregation loops visit
\* the items of one bundle in this order
Position(H, i) == CHOOSE p \in DOMAIN bundles[H] : bundles[H][p] = i

\* every value cat_of can take
AllCategories == Cats \cup {NoneCat}
OwnChores(X, c) == {i \in Held(X) : val[X][i] < 0 /\ cat_of(i) = c}
OthersGoods(X, c) == {j \in Held(Other(X)) : val[X][j] > 0 /\ cat_of(j) = c}

\* categories where X owns a negative-valued item and the other agent owns an
\* item X values positively
QualifyingCategories(X) ==
    {c \in AllCategories : OwnChores(X, c) # {} /\ OthersGoods(X, c) # {}}

\* some same-category pair (own chore, other's good) whose swap clears X's gap
EliminatingPairExists(X) ==
    \E c \in AllCategories :
        \E i \in OwnChores(X, c), j \in OthersGoods(X, c) :
            val[X][j] - val[X][i] >= 0 - SpecGap(X)

\* the first direction (A envies B) passes
FirstDirectionPasses == SpecGap(A) >= 0 \/ EliminatingPairExists(A)

\* EF[1,1] for agent X: after removing at most one item of X's bundle and at
\* most one item of the other bundle (0 stands for "no item removed"; two
\* removed items share a category) X no longer envies
RemovedValue(X, i) == IF i = 0 THEN 0 ELSE val[X][i]
EF11For(X) ==
    \E i \in Held(X) \cup {0}, j \in Held(Other(X)) \cup {0} :
        /\ (i # 0 /\ j # 0) => cat_of(i) = cat_of(j)
        /\ OwnValue(X) - RemovedValue(X, i) >= OtherValue(X) - RemovedValue(X, j)

Candidates(X) == {result.swap_pairs[X][i] : i \in DOMAIN result.swap_pairs[X]}

\* ==================================================================== claims

\* C1: for two agents with disjoint bundles, is_ef11 = TRUE exactly when every
\* envious agent's envy disappears after removing at most one item of its own
\* bundle and at most one item of the other bundle (same category when both),
\* the removal of a single item included.  (Violated by the code.)
C1_VerdictIsEF11 ==
    Returned => (result.is_ef11 <=> \A X \in {A, B} : EF11For(X))

\* C2: when both agents have gap >= 0 the verdict is is_ef11 = TRUE,
\* violating_pair = None and both swap_pairs lists are empty.
C2_NoEnvy ==
    (Returned /\ SpecGap(A) >= 0 /\ SpecGap(B) >= 0)
        => /\ result.is_ef11 = TRUE
           /\ result.violating_pair = None
           /\ result.swap_pairs[A] = <<>>
           /\ result.swap_pairs[B] = <<>>

C2_Witness ==
    /\ Returned
    /\ SpecGap(A) >= 0
    /\ SpecGap(B) > 0
    /\ QualifyingCategories(A) # {}

\* C3 as stated: whenever an agent X, first or second, envies and has no
\* qualifying category, is_ef11 = FALSE and violating_pair = (X, other).
\* (Violated: the second agent is not named when the first direction fails.)
C3_AsStated ==
    Returned =>
        \A X \in {A, B} :
            (SpecGap(X) < 0 /\ QualifyingCategories(X) = {})
                => /\ result.is_ef11 = FALSE
                   /\ result.violating_pair = <<X, Other(X)>>

\* C3 amended: whenever an agent X envies and has no qualifying category,
\* is_ef11 = FALSE; violating_pair = (X, other) if X is the first agent or the
\* first direction passed, and violating_pair = (first, second) otherwise.
C3_Amended ==
    Returned =>
        \A X \in {A, B} :
            (SpecGap(X) < 0 /\ QualifyingCategories(X) = {})
                => /\ result.is_ef11 = FALSE
                   /\ (X = A \/ FirstDirectionPasses)
                        => result.violating_pair = <<X, Other(X)>>
                   /\ (X = B /\ ~FirstDirectionPasses)
                        => result.violating_pair = <<A, B>>

C3_Witness ==
    /\ Returned
    /\ SpecGap(B) < 0
    /\ QualifyingCategories(B) = {}
    /\ SpecGap(A) < 0
    /\ result.violating_pair = <<B, A>>

\* C4: the direction "first envies second" is evaluated first; when it fails
\* (the first agent envies and no recorded candidate eliminates the envy) the
\* call returns at once with violating_pair = (first, second) and an empty
\* swap_pairs list for the second agent; the reverse direction is evaluated
\* only after the first direction passed.
FirstFailed(r) ==
    /\ r.bundle_values[A].gap < 0
    /\ \A i \in DOMAIN r.swap_pairs[A] : ~r.swap_pairs[A][i].eliminates_envy

C4_ShortCircuit ==
    [][/\ pc = "checkA" =>
            /\ result.swap_pairs[B] = <<>>
            /\ FirstFailed(result')
                => /\ pc' = "done"
                   /\ result'.violating_pair = <<A, B>>
                   /\ result'.swap_pairs[B] = <<>>
       /\ pc' = "checkB" => (pc = "checkA" /\ ~FirstFailed(result'))
       /\ (Aggregated /\ result'.swap_pairs[B] # result.swap_pairs[B])
            => pc = "checkB"]_vars

C4_Witness ==
    /\ Returned
    /\ result.violating_pair = <<A, B>>
    /\ result.swap_pairs[B] = <<>>
    /\ SpecGap(B) < 0
    /\ EliminatingPairExists(B)

\* C5: for two agents with disjoint bundles, every returned verdict (an early
\* is_ef11 = FALSE one included) reports for each agent X the sum of X's values
\* of its own items, the sum of X's values of the other agent's items, and
\* their difference as gap.
C5_BundleValues ==
    Returned =>
        \A X \in {A, B} :
            result.bundle_values[X] =
                [own_bundle_value |-> OwnValue(X),
                 other_bundle_value |-> OtherValue(X),
                 gap |-> OwnValue(X) - OtherValue(X)]

C5_Witness ==
    /\ Returned
    /\ result.is_ef11 = FALSE
    /\ result.violating_pair = <<A, B>>
    /\ OwnValue(B) < 0
    /\ OtherValue(B) > 0
    /\ Len(bundles[A]) = 2

\* C6: when the allocation does not hold exactly two agents the call ends in
\* an error and no verdict is returned.  (Violated by the code for three or
\* more agents.)
C6_RejectsOtherAgentCounts ==
    (Len(bundles) # 2 /\ pc \in {"done", "error"})
        => (pc = "error" /\ result = <<>>)

\* C7: every recorded swap candidate has chore_value < 0 < good_value,
\* total_gain = good_value - chore_value > 0 and
\* eliminates_envy = (total_gain >= -gap of the envious agent).
C7_Candidates ==
    Aggregated =>
        \A X \in {A, B} : \A s \in Candidates(X) :
            /\ s.chore_value < 0
            /\ 0 < s.good_value
            /\ s.total_gain = s.good_value - s.chore_value
            /\ s.total_gain > 0
            /\ s.eliminates_envy = (s.total_gain >= 0 - SpecGap(X))

C7_Witness ==
    /\ Returned
    /\ \E s \in Candidates(B) : ~s.eliminates_envy /\ s.chore_value = 0 - 2
    /\ \E s \in Candidates(A) : s.eliminates_envy

\* C8: per agent X and category c the aggregation records the held item with
\* the minimum strictly negative value(X, .) as the worst own chore and the
\* other agent's item with the maximum strictly positive value(X, .) as the
\* best good; among equal values the first item in iteration order is kept;
\* zero-valued items are never recorded, so a category with only zero-valued
\* items on one side is no candidate category.
\* item is, in the eyes of X, the first of the largest (sign = 1) or smallest
\* (sign = -1) items of S, a set of items held by agent H
IsFirstExtremum(X, item, S, sign, H) ==
    /\ item \in S
    /\ \A o \in S :
        \/ sign * val[X][item] > sign * val[X][o]
        \/ (val[X][item] = val[X][o] /\ Position(H, item) <= Position(H, o))

C8_Extrema ==
    Aggregated =>
        \A X \in {A, B} :
            /\ DOMAIN wost_chore_in_cat_eyes_of_self[X]
                    = {c \in AllCategories : OwnChores(X, c) # {}}
            /\ DOMAIN wost_chore_item[X] = DOMAIN wost_chore_in_cat_eyes_of_self[X]
            /\ \A c \in DOMAIN wost_chore_item[X] :
                    /\ IsFirstExtremum(X, wost_chore_item[X][c], OwnChores(X, c),
                                       0 - 1, X)
                    /\ wost_chore_in_cat_eyes_of_self[X][c]
                            = val[X][wost_chore_item[X][c]]
            /\ DOMAIN best_good_in_cat_eyes_of_other[Other(X)]
                    = {c \in AllCategories : OthersGoods(X, c) # {}}
            /\ DOMAIN best_good_item[Other(X)]
                    = DOMAIN best_good_in_cat_eyes_of_other[Other(X)]
            /\ \A c \in DOMAIN best_good_item[Other(X)] :
                    /\ IsFirstExtremum(X, best_good_item[Other(X)][c],
                                       OthersGoods(X, c), 1, Other(X))
                    /\ best_good_in_cat_eyes_of_other[Other(X)][c]
                            = val[X][best_good_item[Other(X)][c]]
            /\ CandidateCategories(X, Other(X)) = QualifyingCategories(X)

C8_Witness ==
    /\ Aggregated
    /\ \E c \in AllCategories :
        /\ \E i, o \in OwnChores(A, c) :
                /\ i # o
                /\ val[A][i] = val[A][o]
                /\ wost_chore_item[A][c] = i
        /\ \E j \in Held(B) : val[A][j] = 0 /\ cat_of(j) = c
        /\ c \notin CandidateCategories(A, B)

\* C9: looking at one (worst chore, best good) pair per category loses
\* nothing: is_ef11 = TRUE exactly when every agent X with gap(X) < 0 has some
\* own item i with value(X, i) < 0 and some item j of the other agent with
\* value(X, j) > 0 in the same category with
\* value(X, j) - value(X, i) >= -gap(X).
C9_ExhaustiveSearch ==
    Returned =>
        (result.is_ef11 <=>
            \A X \in {A, B} : SpecGap(X) < 0 => EliminatingPairExists(X))

C9_Witness ==
    /\ Returned
    /\ result.is_ef11 = TRUE
    /\ SpecGap(A) < 0
    /\ \E c \in AllCategories :
        /\ \E i \in OwnChores(A, c) :
                \A j \in OthersGoods(A, c) : val[A][j] - val[A][i] < 0 - SpecGap(A)
        /\ \E j \in OthersGoods(A, c) :
                \A i \in OwnChores(A, c) : val[A][j] - val[A][i] < 0 - SpecGap(A)

\* C10: in every returned verdict is_ef11 = FALSE exactly when violating_pair
\* is set; violating_pair = (X, Y) means X has gap < 0 and no candidate of X
\* eliminates the envy; with is_ef11 = TRUE every agent with gap < 0 has a
\* candidate that eliminates its envy; every list has at most one candidate
\* per category, and a candidate removes an item of the envious agent's bundle
\* and an item of the other agent's bundle of the same category.
C10_VerdictConsistent ==
    Returned =>
        /\ (result.is_ef11 = FALSE) <=> (result.violating_pair # None)
        /\ result.violating_pair \in {None, <<A, B>>, <<B, A>>}
        /\ \A X \in {A, B} :
            /\ result.violating_pair = <<X, Other(X)>>
                => /\ result.bundle_values[X].gap < 0
                   /\ \A s \in Candidates(X) : ~s.eliminates_envy
            /\ (result.is_ef11 /\ result.bundle_values[X].gap < 0)
                => \E s \in Candidates(X) : s.eliminates_envy
            /\ \A i, j \in DOMAIN result.swap_pairs[X] :
                    result.swap_pairs[X][i].category = result.swap_pairs[X][j].category
                        => i = j
            /\ \A s \in Candidates(X) :
                /\ s.remove_from_own \in Held(X)
                /\ s.remove_from_other \in Held(Other(X))
                /\ cat_of(s.remove_from_own) = s.category
                /\ cat_of(s.remove_from_other) = s.category

C10_Witness ==
    /\ Returned
    /\ result.is_ef11 = TRUE
    /\ Len(result.swap_pairs[A]) = 2
    /\ \E s \in Candidates(A) : ~s.eliminates_envy

====
